---- MODULE Spec2Model ----
(***************************************************************************)
(* The Eventp reactor of src/src/lib.rs: the registration table, the       *)
(* kernel epoll set, the event buffer and the `handling` state, with the   *)
(* dispatch loop of run_once_with_timeout split at the handler calls so    *)
(* that handlers can re-enter add / modify / delete.                       *)
(*                                                                         *)
(* File descriptors are borrowed by the subscribers (AsFd): they stay open *)
(* for the whole behaviour, and two subscribers may borrow the same fd.    *)
(* Heap blocks of ThinBoxSubscriber are addresses; a freed address may be  *)
(* handed out again by the allocator.                                      *)
(***************************************************************************)
EXTENDS Integers, Sequences, FiniteSets, TLC

\* ---- bounds ------------------------------------------------------------
NumFds == 2
MaxSubs == 3
MaxAddrs == 3
Capacity == 2
MaxHandlerOps == 2
NumCallers == 2
MaxCalls == 1
MaxMoreCalls == 1
MaxReads == 2
MaxChunk == 2
MaxChain == 3

Fds == 1..NumFds
Ids == 1..MaxSubs
Addrs == 1..MaxAddrs

\* Interest masks handed to add and modify (sets of EpollFlags names).
Interests == {{"EPOLLIN"}, {"EPOLLOUT"}, {"EPOLLIN", "EPOLLEXCLUSIVE"}}

VARIABLES
    registered,   \* Eventp.registered: fd -> subscriber id, 0 when absent
    epoll,        \* the kernel epoll set of Eventp.epoll: fd -> entry
    event_buf,    \* the first n entries of Eventp.event_buf after epoll_wait
    handling,     \* Eventp.handling: Option<Handling>
    subscribers,  \* every ThinBoxSubscriber allocated so far
    pc,           \* where the reactor thread is
    idx,          \* position of the `for ev in buf` loop
    cur,          \* the view `subscriber` of the running loop iteration
    calls,        \* handler invocations made by the running batch
    ops,          \* reactor calls issued by the running handler
    last,         \* the call that last returned to the running caller
    self_deleted, \* history: subscribers whose handler deleted its own fd
    batch_added,  \* history: subscribers added by handlers, not deleted since
    repeated,     \* history: `last` repeats the successful modify before it
    forever,      \* the reactor thread is inside run_forever
    rx,           \* remote endpoint: the closures queued in the mpsc channel
    eventfd,      \* remote endpoint: the counter of the eventfd
    thread,       \* remote endpoint: where each calling thread is
    reply,        \* remote endpoint: the oneshot reply channel of each call
    ran,          \* remote endpoint: the results of the runs of each closure
    echo,         \* echo-server: the running invocation of on_data
    built,        \* interest builder: the mask built and the calls made
    dropped       \* Eventp: the fields a drop of the reactor has dropped

vars == <<registered, epoll, event_buf, handling, subscribers, pc, idx, cur,
          calls, ops, last, self_deleted, batch_added, repeated, forever,
          rx, eventfd, thread, reply, ran, echo, built, dropped>>

\* The variables of the remote endpoint, of the reactor, and those of the
\* reactor that the remote endpoint leaves alone.
remote == <<rx, eventfd, thread, reply, ran>>
history == <<calls, ops, last, self_deleted, batch_added, repeated, forever,
             echo, built, dropped>>
reactor == <<registered, epoll, event_buf, handling, subscribers, pc, idx, cur,
             history>>

\* ---- subscribers (ThinBoxSubscriber heap blocks) -------------------------

NoSub == [born |-> FALSE, fd |-> 0, ptr |-> 0, interest |-> {}, drops |-> 0]

\* A subscriber that was allocated and whose destructor has not run.
Live(subs, id) == id # 0 /\ subs[id].born /\ subs[id].drops = 0

\* The live subscriber whose heap block is at address a, 0 when a is free.
At(subs, a) ==
    IF \E i \in Ids : Live(subs, i) /\ subs[i].ptr = a
    THEN CHOOSE i \in Ids : Live(subs, i) /\ subs[i].ptr = a
    ELSE 0

\* The subscriber that last occupied address a (what freed memory still holds).
LastAt(subs, a) ==
    LET S == {i \in Ids : subs[i].born /\ subs[i].ptr = a}
    IN IF S = {} THEN 0 ELSE CHOOSE i \in S : \A j \in S : j <= i

\* The next ThinBoxSubscriber to be allocated.
NextId(subs) ==
    IF \A i \in Ids : subs[i].born THEN 0
    ELSE CHOOSE i \in Ids : ~subs[i].born /\ \A j \in Ids : j < i => subs[j].born

\* Addresses alloc::alloc may return: a free block, either one used before or
\* the lowest never used one.
Allocatable(subs) ==
    LET used == {subs[i].ptr : i \in {j \in Ids : subs[j].born}}
    IN {a \in Addrs : At(subs, a) = 0 /\ \A b \in Addrs : b < a => b \in used}

\* ThinBoxSubscriber::new: capture raw_fd, write the value into a fresh block.
ThinBoxNew(subs, id, fd, interest, ptr) ==
    [subs EXCEPT ![id] = [born |-> TRUE, fd |-> fd, ptr |-> ptr,
                          interest |-> interest, drops |-> 0]]

\* Mutant of DropBox: the block is leaked, the destructor never runs.
DropBoxLeak(subs, id) == subs

\* Drop for ThinBoxSubscriber: run the destructor, free the block.
DropBox(subs, id) ==
    IF id = 0 THEN subs ELSE [subs EXCEPT ![id].drops = @ + 1]

\* Drop of the table of a reactor: every entry is dropped.
DropTable(reg, subs) ==
    [i \in Ids |-> IF \E f \in Fds : reg[f] = i
                   THEN [subs[i] EXCEPT !.drops = @ + 1] ELSE subs[i]]

\* ---- the kernel side of epoll_ctl ---------------------------------------

NoEntry == [armed |-> FALSE, events |-> {}, data |-> 0, sub |-> 0]

\* Mutant of KernelAdd: the entry is made without the cookie.
KernelAddNoCookie(ep, fd, events, data, sub, fault) ==
    IF ep[fd].armed THEN [ret |-> "EEXIST", epoll |-> ep]
    ELSE IF fault THEN [ret |-> "ENOSPC", epoll |-> ep]
    ELSE [ret |-> "Ok",
          epoll |-> [ep EXCEPT ![fd] = [armed |-> TRUE, events |-> events,
                                        data |-> 0, sub |-> sub]]]

\* EPOLL_CTL_ADD(fd, events, data). `sub` records which subscriber the cookie
\* `data` was made from. `fault`: the kernel refuses a new watch (ENOSPC).
KernelAdd(ep, fd, events, data, sub, fault) ==
    IF ep[fd].armed THEN [ret |-> "EEXIST", epoll |-> ep]
    ELSE IF fault THEN [ret |-> "ENOSPC", epoll |-> ep]
    ELSE [ret |-> "Ok",
          epoll |-> [ep EXCEPT ![fd] = [armed |-> TRUE, events |-> events,
                                        data |-> data, sub |-> sub]]]

\* Mutant of KernelMod: the kernel answers Ok and keeps the old entry.
KernelModKeeps(ep, fd, events, data, sub) ==
    IF ~ep[fd].armed THEN [ret |-> "ENOENT", epoll |-> ep]
    ELSE [ret |-> "Ok", epoll |-> ep]

\* Mutant of KernelMod: the kernel takes EPOLLEXCLUSIVE in a modification.
KernelModExclusive(ep, fd, events, data, sub) ==
    IF ~ep[fd].armed THEN [ret |-> "ENOENT", epoll |-> ep]
    ELSE [ret |-> "Ok",
          epoll |-> [ep EXCEPT ![fd] = [armed |-> TRUE, events |-> events,
                                        data |-> data, sub |-> sub]]]

\* EPOLL_CTL_MOD(fd, events, data). EPOLLEXCLUSIVE may be used only in
\* EPOLL_CTL_ADD: the kernel refuses a modification that carries it, and
\* every modification of an entry that was added with it.
KernelMod(ep, fd, events, data, sub) ==
    IF "EPOLLEXCLUSIVE" \in events THEN [ret |-> "EINVAL", epoll |-> ep]
    ELSE IF ~ep[fd].armed THEN [ret |-> "ENOENT", epoll |-> ep]
    ELSE IF "EPOLLEXCLUSIVE" \in ep[fd].events
    THEN [ret |-> "EINVAL", epoll |-> ep]
    ELSE [ret |-> "Ok",
          epoll |-> [ep EXCEPT ![fd] = [armed |-> TRUE, events |-> events,
                                        data |-> data, sub |-> sub]]]

\* EPOLL_CTL_DEL(fd, null).
KernelDel(ep, fd) ==
    IF ~ep[fd].armed THEN [ret |-> "ENOENT", epoll |-> ep]
    ELSE [ret |-> "Ok", epoll |-> [ep EXCEPT ![fd] = NoEntry]]

\* ---- the parts of remote_endpoint -------------------------------------

\* The eventfd of the pair, its Subscriber and the heap block of the latter.
EventFd == 1
EpSub == 1
EpAddr == 1

\* Threads that hold a clone of the RemoteEndpoint, and the calls they make.
Callers == 1..NumCallers
Calls == Callers \X (1..(MaxCalls + MaxMoreCalls))

\* The calls a thread makes: MaxCalls each, the first thread MaxMoreCalls more.
CallBudget(c) == IF c = 1 THEN MaxCalls + MaxMoreCalls ELSE MaxCalls

Variants == {"call_blocking", "call_blocking_with_timeout",
             "call_blocking_async", "call_nonblocking"}

\* What a closure returns to its caller (io::Result<T>).
Results == {"Ok", "NotFound"}

NoThread == [pc |-> "idle", variant |-> "none", n |-> 0, ret |-> "none"]

\* The state of the remote endpoint before any call.
NoEcho == [pc |-> "none", ev |-> {}, script |-> <<>>, inp |-> <<>>,
           out |-> <<>>, reads |-> 0, writes |-> 0, deletes |-> 0,
           closed |-> FALSE]

NoBuilt == [mask |-> {}, calls |-> <<>>]

NoRemote ==
    /\ rx = <<>>
    /\ eventfd = 0
    /\ thread = [c \in Callers |-> NoThread]
    /\ reply = [k \in Calls |-> "none"]
    /\ ran = [k \in Calls |-> <<>>]

\* ---- Eventp ---------------------------------------------------------------

NoHandling == [some |-> FALSE, fd |-> -1, deferred_remove |-> <<>>]
NoView == [id |-> 0, dangling |-> FALSE]
NoCall == [op |-> "none", fd |-> 0, id |-> 0, ret |-> "Ok", ctl |-> FALSE]

Init ==
    /\ registered = [f \in Fds |-> 0]
    /\ epoll = [f \in Fds |-> NoEntry]
    /\ event_buf = <<>>
    /\ handling = NoHandling
    /\ subscribers = [i \in Ids |-> NoSub]
    /\ pc = "idle"
    /\ idx = 0
    /\ cur = NoView
    /\ calls = <<>>
    /\ ops = 0
    /\ last = NoCall
    /\ self_deleted = {}
    /\ batch_added = {}
    /\ repeated = FALSE
    /\ forever = FALSE
    /\ echo = NoEcho
    /\ built = NoBuilt
    /\ dropped = <<>>
    /\ NoRemote

\* A reactor call can be made by the owner of the reactor between batches
\* (not while the owner is inside run_forever), or by the running handler
\* through its Pinned handle.
CanCall ==
    \/ pc = "idle" /\ ~forever
    \/ pc = "handler" /\ ops < MaxHandlerOps

Called == ops' = IF pc = "handler" THEN ops + 1 ELSE ops

\* Mutant of SelfReplacement: the check is missing.
SelfReplacementOff(h, raw_fd) == FALSE

\* The re-entrancy check of add: the fd of the subscriber being handled.
SelfReplacement(h, raw_fd) == h.some /\ h.fd = raw_fd

\* HashMap::insert of add: the table takes the subscriber, the prior owner of
\* the fd is dropped.
TableInsert(reg, subs, fd, id) ==
    [registered |-> [reg EXCEPT ![fd] = id],
     subscribers |-> DropBox(subs, reg[fd])]

\* Mutant of Inserted: the insert does not wait for the kernel's answer.
InsertedAlways(ret) == TRUE

\* `self.epoll.add(..)?`: add goes on to the insert only when the kernel
\* accepted the fd.
Inserted(ret) == ret = "Ok"

\* Eventp::add, with the allocation of the ThinBoxSubscriber it consumes.
add(id, fd, interest, ptr, fault) ==
    LET boxed == ThinBoxNew(subscribers, id, fd, interest, ptr)
        raw_fd == boxed[id].fd
    IN IF SelfReplacement(handling, raw_fd)
       THEN /\ subscribers' = DropBox(boxed, id)
            /\ last' = [op |-> "add", fd |-> raw_fd, id |-> id,
                        ret |-> "SelfReplacement", ctl |-> FALSE]
            /\ UNCHANGED <<registered, epoll>>
       ELSE LET k == KernelAdd(epoll, raw_fd, boxed[id].interest, boxed[id].ptr,
                               id, fault)
                t == TableInsert(registered, boxed, raw_fd, id)
            IN /\ epoll' = k.epoll
               /\ last' = [op |-> "add", fd |-> raw_fd, id |-> id,
                           ret |-> k.ret, ctl |-> TRUE]
               /\ IF Inserted(k.ret)
                  THEN /\ registered' = t.registered
                       /\ subscribers' = t.subscribers
                  ELSE /\ registered' = registered
                       /\ subscribers' = DropBox(boxed, id)

\* Registry::register for the reactor: self.add(ThinBoxSubscriber::new(s)).
register(id, fd, interest, ptr, fault) == add(id, fd, interest, ptr, fault)

\* Pinned::add: forwards to the add of the reactor behind the pin.
Pinned_add(id, fd, interest, ptr, fault) == add(id, fd, interest, ptr, fault)

\* Registry::register for Pinned: self.add(ThinBoxSubscriber::new(s)).
Pinned_register(id, fd, interest, ptr, fault) ==
    Pinned_add(id, fd, interest, ptr, fault)

\* The owner registers on the reactor, a handler through its Pinned handle.
Add ==
    /\ CanCall
    /\ NextId(subscribers) # 0
    /\ \E fd \in Fds, interest \in Interests,
          ptr \in Allocatable(subscribers), fault \in BOOLEAN :
          IF pc = "handler"
          THEN Pinned_register(NextId(subscribers), fd, interest, ptr, fault)
          ELSE register(NextId(subscribers), fd, interest, ptr, fault)
    /\ Called
    /\ batch_added' = IF pc = "handler" /\ last'.ret = "Ok"
                      THEN batch_added \cup {last'.id} ELSE batch_added
    /\ repeated' = FALSE
    /\ UNCHANGED <<remote, echo, built, dropped, event_buf, handling, pc, idx, cur, calls, self_deleted,
                   forever>>

\* Mutant of modify: the table lookup is missing, EPOLL_CTL_MOD is always issued.
modifyUnchecked(fd, interest) ==
    LET id == registered[fd]
        k == KernelMod(epoll, fd, interest, IF id = 0 THEN 0 ELSE subscribers[id].ptr, id)
    IN /\ epoll' = k.epoll
       /\ last' = [op |-> "modify", fd |-> fd, id |-> id,
                   ret |-> k.ret, ctl |-> TRUE]
       /\ subscribers' =
              IF k.ret = "Ok" /\ id # 0
              THEN [subscribers EXCEPT ![id].interest = interest]
              ELSE subscribers

\* Mutant of modify: the interest cell is written before the kernel answers.
modifyCellFirst(fd, interest) ==
    LET id == registered[fd]
    IN IF id = 0
       THEN /\ last' = [op |-> "modify", fd |-> fd, id |-> 0,
                        ret |-> "NotFound", ctl |-> FALSE]
            /\ UNCHANGED <<epoll, subscribers>>
       ELSE LET k == KernelMod(epoll, fd, interest, subscribers[id].ptr, id)
            IN /\ epoll' = k.epoll
               /\ last' = [op |-> "modify", fd |-> fd, id |-> id,
                           ret |-> k.ret, ctl |-> TRUE]
               /\ subscribers' = [subscribers EXCEPT ![id].interest = interest]

\* Mutant of modify: the interest cell receives the interest the kernel had
\* before the call.
modifyCellLags(fd, interest) ==
    LET id == registered[fd]
    IN IF id = 0
       THEN /\ last' = [op |-> "modify", fd |-> fd, id |-> 0,
                        ret |-> "NotFound", ctl |-> FALSE]
            /\ UNCHANGED <<epoll, subscribers>>
       ELSE LET k == KernelMod(epoll, fd, interest, subscribers[id].ptr, id)
            IN /\ epoll' = k.epoll
               /\ last' = [op |-> "modify", fd |-> fd, id |-> id,
                           ret |-> k.ret, ctl |-> TRUE]
               /\ subscribers' =
                      IF k.ret = "Ok"
                      THEN [subscribers EXCEPT ![id].interest = epoll[fd].events]
                      ELSE subscribers

\* Mutant of modify: the interest cell is never written.
modifyCellNever(fd, interest) ==
    LET id == registered[fd]
    IN IF id = 0
       THEN /\ last' = [op |-> "modify", fd |-> fd, id |-> 0,
                        ret |-> "NotFound", ctl |-> FALSE]
            /\ UNCHANGED <<epoll, subscribers>>
       ELSE LET k == KernelMod(epoll, fd, interest, subscribers[id].ptr, id)
            IN /\ epoll' = k.epoll
               /\ last' = [op |-> "modify", fd |-> fd, id |-> id,
                           ret |-> k.ret, ctl |-> TRUE]
               /\ subscribers' = subscribers

\* Eventp::modify.
modify(fd, interest) ==
    LET id == registered[fd]
    IN IF id = 0
       THEN /\ last' = [op |-> "modify", fd |-> fd, id |-> 0,
                        ret |-> "NotFound", ctl |-> FALSE]
            /\ UNCHANGED <<epoll, subscribers>>
       ELSE LET k == KernelMod(epoll, fd, interest, subscribers[id].ptr, id)
            IN /\ epoll' = k.epoll
               /\ last' = [op |-> "modify", fd |-> fd, id |-> id,
                           ret |-> k.ret, ctl |-> TRUE]
               /\ subscribers' =
                      IF k.ret = "Ok"
                      THEN [subscribers EXCEPT ![id].interest = interest]
                      ELSE subscribers

\* Pinned::modify: forwards to the modify of the reactor behind the pin.
Pinned_modify(fd, interest) == modify(fd, interest)

Modify ==
    /\ CanCall
    /\ \E fd \in Fds, interest \in Interests :
          /\ IF pc = "handler" THEN Pinned_modify(fd, interest)
             ELSE modify(fd, interest)
          /\ repeated' = /\ last.op = "modify" /\ last.ret = "Ok"
                          /\ last.fd = fd /\ epoll[fd].events = interest
                          /\ last'.ret = "Ok"
    /\ Called
    /\ UNCHANGED <<remote, echo, built, dropped, registered, event_buf, handling, pc, idx, cur, calls,
                   self_deleted, batch_added, forever>>

\* Mutant of DeleteEntry: the entry is removed at once, also during dispatch.
DeleteEntryNow(h, reg, subs, fd) ==
    [handling |-> h,
     registered |-> [reg EXCEPT ![fd] = 0],
     subscribers |-> IF reg[fd] = 0 THEN subs
                     ELSE [subs EXCEPT ![reg[fd]].drops = @ + 1]]

\* Mutant of DeleteEntry: the removal is always deferred.
DeleteEntryDefers(h, reg, subs, fd) ==
    [handling |-> [h EXCEPT !.deferred_remove = Append(@, fd)],
     registered |-> reg, subscribers |-> subs]

\* The table part of delete: deferred while a batch is dispatched.
DeleteEntry(h, reg, subs, fd) ==
    IF h.some
    THEN [handling |-> [h EXCEPT !.deferred_remove = Append(@, fd)],
          registered |-> reg, subscribers |-> subs]
    ELSE [handling |-> h,
          registered |-> [reg EXCEPT ![fd] = 0],
          subscribers |-> DropBox(subs, reg[fd])]

\* Mutant of delete: the result of EPOLL_CTL_DEL is not looked at.
deleteUnchecked(fd) ==
    LET k == KernelDel(epoll, fd)
        d == DeleteEntry(handling, registered, subscribers, fd)
    IN /\ epoll' = k.epoll
       /\ last' = [op |-> "delete", fd |-> fd, id |-> registered[fd],
                   ret |-> k.ret, ctl |-> TRUE]
       /\ handling' = d.handling
       /\ registered' = d.registered
       /\ subscribers' = d.subscribers

\* Eventp::delete.
delete(fd) ==
    LET k == KernelDel(epoll, fd)
        d == DeleteEntry(handling, registered, subscribers, fd)
    IN /\ epoll' = k.epoll
       /\ last' = [op |-> "delete", fd |-> fd, id |-> registered[fd],
                   ret |-> k.ret, ctl |-> TRUE]
       /\ IF k.ret = "Ok"
          THEN /\ handling' = d.handling
               /\ registered' = d.registered
               /\ subscribers' = d.subscribers
          ELSE UNCHANGED <<handling, registered, subscribers>>

\* Mutant of Pinned_delete: the handle does not look at the kernel's answer.
Pinned_delete_unchecked(fd) == deleteUnchecked(fd)

\* Pinned::delete: forwards to the delete of the reactor behind the pin.
Pinned_delete(fd) == delete(fd)

Delete ==
    /\ CanCall
    /\ \E fd \in Fds :
          /\ IF pc = "handler" THEN Pinned_delete(fd) ELSE delete(fd)
          /\ self_deleted' =
                 IF pc = "handler" /\ subscribers[cur.id].fd = fd
                 THEN self_deleted \cup {cur.id} ELSE self_deleted
          /\ batch_added' = {s \in batch_added : subscribers[s].fd # fd}
    /\ repeated' = FALSE
    /\ Called
    /\ UNCHANGED <<remote, echo, built, dropped, event_buf, pc, idx, cur, calls, forever>>

\* ---- run_once_with_timeout ------------------------------------------------

RECURSIVE Perms(_)
\* The sequences that list every element of S once.
Perms(S) ==
    IF S = {} THEN {<<>>}
    ELSE UNION {{<<x>> \o p : p \in Perms(S \ {x})} : x \in S}

\* The flags of an entry that epoll_wait can report: EPOLLEXCLUSIVE is an
\* input flag only.
Reported(events) == events \ {"EPOLLEXCLUSIVE"}

\* What epoll_wait may write into the buffer: at most Capacity events, one per
\* armed fd, each carrying the interest and the cookie of its kernel entry.
Batches(ep) ==
    LET armed == {f \in Fds : ep[f].armed}
        order == UNION {Perms(S) : S \in {T \in SUBSET armed : Cardinality(T) <= Capacity}}
    IN {[i \in 1..Len(o) |-> [events |-> Reported(ep[o[i]].events),
                              data |-> ep[o[i]].data,
                              sub |-> ep[o[i]].sub]] : o \in order}

\* What epoll_wait answers: events, a signal (EINTR, ErrorKind::Interrupted), or
\* a failure of another kind (the epoll descriptor is gone).
WaitResults == {"Ok", "EINTR", "EBADF"}

\* Mutant of Recursive: the guard is missing.
RecursiveOff(h) == FALSE

\* The guard of run_once_with_timeout: a batch is being dispatched.
Recursive(h) == h.some

\* Mutant of Continue: run_forever retries after Ok only.
ContinueOkOnly(ret) == ret = "Ok"

\* The match of run_forever: the results of run_once after which it loops.
Continue(ret) == ret = "Ok" \/ ret = "EINTR"

\* The owner of the reactor calls run_forever between batches.
RunForever ==
    /\ pc = "idle"
    /\ ~forever
    /\ forever' = TRUE
    /\ last' = NoCall
    /\ repeated' = FALSE
    /\ UNCHANGED <<remote, echo, built, dropped, registered, epoll, event_buf, handling, subscribers, pc, idx,
                   cur, calls, ops, self_deleted, batch_added>>

\* run_forever leaves its loop with the error run_once returned.
RunForeverReturn ==
    /\ forever
    /\ pc \in {"idle", "failed"}
    /\ last.op = "run_once"
    /\ ~Continue(last.ret)
    /\ forever' = FALSE
    /\ last' = [last EXCEPT !.op = "run_forever"]
    /\ UNCHANGED <<remote, echo, built, dropped, registered, epoll, event_buf, handling, subscribers, pc, idx,
                   cur, calls, ops, self_deleted, batch_added, repeated>>

\* Entry of run_once_with_timeout up to the dispatch loop: the guard against
\* nested runs, epoll_wait and the `handling` state. It is called by the owner
\* of the reactor between batches, by the loop of run_forever, and (nested) by
\* a running handler. After a failure of epoll_wait other than EINTR the
\* reactor is not followed any further.
RunOnceEnter ==
    /\ \/ pc = "idle" /\ (forever => Continue(last.ret))
       \/ pc = "handler" /\ ops < MaxHandlerOps
    /\ IF Recursive(handling)
       THEN /\ pc' = "panicked"
            /\ last' = [op |-> "run_once", fd |-> 0, id |-> 0,
                        ret |-> "panic", ctl |-> FALSE]
            /\ UNCHANGED <<event_buf, handling, idx, calls, self_deleted,
                           batch_added, repeated>>
       ELSE \E wait \in WaitResults :
               IF wait # "Ok"
               THEN /\ last' = [op |-> "run_once", fd |-> 0, id |-> 0,
                                ret |-> wait, ctl |-> FALSE]
                    /\ pc' = IF wait = "EINTR" THEN pc ELSE "failed"
                    /\ repeated' = FALSE
                    /\ UNCHANGED <<event_buf, handling, idx, calls,
                                   self_deleted, batch_added>>
               ELSE \E buf \in Batches(epoll) :
                       /\ event_buf' = buf
                       /\ handling' = [some |-> TRUE, fd |-> -1,
                                       deferred_remove |-> <<>>]
                       /\ pc' = "loop"
                       /\ idx' = 1
                       /\ calls' = <<>>
                       /\ last' = NoCall
                       /\ self_deleted' = {}
                       /\ batch_added' = {}
                       /\ repeated' = FALSE
    /\ UNCHANGED <<remote, echo, built, dropped, registered, epoll, subscribers, cur, ops, forever>>

\* The subscriber the loop reconstructs from the cookie. A cookie whose block
\* was freed and not handed out again is a dangling pointer: the read of the
\* freed block is undefined, it either still yields the old content or faults.
ViewOf(subs, data) ==
    IF At(subs, data) # 0
    THEN [id |-> At(subs, data), dangling |-> FALSE]
    ELSE [id |-> LastAt(subs, data), dangling |-> TRUE]

\* One iteration of `for ev in buf` up to the call of the handler.
Dispatch ==
    /\ pc = "loop"
    /\ idx <= Len(event_buf)
    /\ LET view == ViewOf(subscribers, event_buf[idx].data)
       IN \E ub \in {"stale", "fault"} :
             IF view.dangling /\ ub = "fault"
             THEN /\ pc' = "aborted"
                  /\ UNCHANGED <<handling, cur, calls>>
             ELSE /\ handling' = [handling EXCEPT !.fd = subscribers[view.id].fd]
                  /\ cur' = view
                  /\ calls' = Append(calls, [data |-> event_buf[idx].data,
                                             id |-> view.id,
                                             live |-> ~view.dangling])
                  /\ pc' = "handler"
    /\ UNCHANGED <<remote, echo, built, dropped, registered, epoll, event_buf, subscribers, idx, ops, last,
                   self_deleted, batch_added, repeated, forever>>

\* The handler returns; mem::forget(subscriber) leaves the block alone.
HandlerReturn ==
    /\ pc = "handler"
    /\ pc' = "loop"
    /\ idx' = idx + 1
    /\ cur' = NoView
    /\ ops' = 0
    /\ last' = NoCall
    /\ repeated' = FALSE
    /\ UNCHANGED <<remote, echo, built, dropped, registered, epoll, event_buf, handling, subscribers, calls,
                   self_deleted, batch_added, forever>>

RECURSIVE RemoveAll(_, _, _)
\* `for fd in handling.deferred_remove { self.registered.remove(&fd); }`
RemoveAll(reg, subs, fds) ==
    IF fds = <<>> THEN [registered |-> reg, subscribers |-> subs]
    ELSE RemoveAll([reg EXCEPT ![Head(fds)] = 0],
                   DropBox(subs, reg[Head(fds)]), Tail(fds))

\* Mutant of TakeHandling: the state is read and left in place.
TakeHandlingLeaves(h) == h

\* `self.handling.take()`: what is left in the field.
TakeHandling(h) == NoHandling

\* After the loop: take `handling`, process the deferred removals, return Ok.
RunOnceFinish ==
    /\ pc = "loop"
    /\ idx > Len(event_buf)
    /\ LET r == RemoveAll(registered, subscribers, handling.deferred_remove)
       IN /\ registered' = r.registered
          /\ subscribers' = r.subscribers
    /\ handling' = TakeHandling(handling)
    /\ last' = [op |-> "run_once", fd |-> 0, id |-> 0, ret |-> "Ok", ctl |-> FALSE]
    /\ pc' = "idle"
    /\ idx' = 0
    /\ event_buf' = <<>>
    /\ calls' = <<>>
    /\ batch_added' = {}
    /\ repeated' = FALSE
    /\ UNCHANGED <<remote, echo, built, dropped, epoll, cur, ops, self_deleted, forever>>

Next ==
    \/ Add
    \/ Modify
    \/ Delete
    \/ RunForever
    \/ RunForeverReturn
    \/ RunOnceEnter
    \/ Dispatch
    \/ HandlerReturn
    \/ RunOnceFinish

Spec == Init /\ [][Next]_vars

\* ---- the end of a reactor --------------------------------------------------

\* Mutant of FieldOrder: `epoll` is declared before `registered`.
FieldOrderEpollFirst == <<"epoll", "registered", "event_buf", "handling">>

\* The fields of Eventp in the order of their declaration, which is the order
\* in which a drop of the reactor drops them.
FieldOrder == <<"registered", "epoll", "event_buf", "handling">>

\* The drop of the reactor, one field per step: by its owner between two
\* runs, or by the unwinding of a panic. The drop of `registered` drops every
\* subscriber the table owns, the drop of `epoll` closes the epoll descriptor.
Teardown ==
    /\ \/ pc \in {"idle", "failed"} /\ ~forever
       \/ pc = "dropping"
    /\ LET field == FieldOrder[Len(dropped) + 1]
       IN /\ dropped' = Append(dropped, field)
          /\ pc' = IF Len(dropped') = Len(FieldOrder) THEN "gone"
                   ELSE "dropping"
          /\ subscribers' = IF field = "registered"
                            THEN DropTable(registered, subscribers)
                            ELSE subscribers
          /\ registered' = IF field = "registered" THEN [f \in Fds |-> 0]
                           ELSE registered
          /\ epoll' = IF field = "epoll" THEN [f \in Fds |-> NoEntry]
                      ELSE epoll
          /\ event_buf' = IF field = "event_buf" THEN <<>> ELSE event_buf
          /\ handling' = IF field = "handling" THEN NoHandling ELSE handling
    /\ UNCHANGED <<remote, echo, built, idx, cur, calls, ops, last,
                   self_deleted, batch_added, repeated, forever>>

\* A panic raised under a handler unwinds through the dispatch loop, whose
\* local `subscriber` has not reached its mem::forget and is dropped; the
\* unwinding then reaches the frame that owns the reactor and drops it.
Unwind ==
    /\ pc = "panicked"
    /\ pc' = "dropping"
    /\ subscribers' = DropBox(subscribers, cur.id)
    /\ UNCHANGED <<remote, echo, built, registered, epoll, event_buf, handling,
                   idx, cur, calls, ops, last, self_deleted, batch_added,
                   repeated, forever, dropped>>

\* The reactor from its construction to its drop.
NextLifetime ==
    \/ Next
    \/ Teardown
    \/ Unwind

SpecLifetime == Init /\ [][NextLifetime]_vars

\* ---- remote_endpoint ----------------------------------------------------
\* The pair of src/src/remote_endpoint.rs on a reactor of its own: the
\* Subscriber (eventfd, receiving end of the closure queue) is registered, the
\* RemoteEndpoint is used by other threads.

\* After `remote_endpoint()?.register_into(&mut eventp)?` on a new reactor.
InitEndpoint ==
    /\ registered = [f \in Fds |-> IF f = EventFd THEN EpSub ELSE 0]
    /\ epoll = [f \in Fds |->
                   IF f = EventFd
                   THEN [armed |-> TRUE, events |-> {"EPOLLIN"},
                         data |-> EpAddr, sub |-> EpSub]
                   ELSE NoEntry]
    /\ subscribers = ThinBoxNew([i \in Ids |-> NoSub], EpSub, EventFd,
                                {"EPOLLIN"}, EpAddr)
    /\ event_buf = <<>>
    /\ handling = NoHandling
    /\ pc = "idle"
    /\ idx = 0
    /\ cur = NoView
    /\ calls = <<>>
    /\ ops = 0
    /\ last = NoCall
    /\ self_deleted = {}
    /\ batch_added = {}
    /\ repeated = FALSE
    /\ forever = FALSE
    /\ echo = NoEcho
    /\ built = NoBuilt
    /\ dropped = <<>>
    /\ NoRemote

\* The Subscriber, and with it the Receiver of the closure queue, exists.
RxAlive(subs) == Live(subs, EpSub)

\* The call a thread is in, or was in last.
CallOf(c) == <<c, thread[c].n>>

Queued(q, k) == \E i \in 1..Len(q) : q[i] = k

\* Mutant of Send: the closure is queued although the Receiver is gone.
SendAlways(subs, q, k) == [ok |-> TRUE, rx |-> Append(q, k)]

\* Mutant of Send: the closure goes to the head of the queue.
SendFront(subs, q, k) ==
    IF RxAlive(subs) THEN [ok |-> TRUE, rx |-> <<k>> \o q]
    ELSE [ok |-> FALSE, rx |-> q]

\* mpsc::Sender::send: fails when the Receiver was dropped.
Send(subs, q, k) ==
    IF RxAlive(subs) THEN [ok |-> TRUE, rx |-> Append(q, k)]
    ELSE [ok |-> FALSE, rx |-> q]

\* call_variant! / call_nonblocking up to the `?` after tx.send.
CallSend(c) ==
    /\ thread[c].pc = "idle"
    /\ thread[c].n < CallBudget(c)
    /\ \E v \in Variants :
          LET k == <<c, thread[c].n + 1>>
              s == Send(subscribers, rx, k)
          IN /\ rx' = s.rx
             /\ thread' = [thread EXCEPT ![c] =
                              IF s.ok
                              THEN [pc |-> "sent", variant |-> v, n |-> k[2],
                                    ret |-> "none"]
                              ELSE [pc |-> "idle", variant |-> v, n |-> k[2],
                                    ret |-> "SubscriberDropped"]]
             /\ reply' = [reply EXCEPT ![k] =
                             IF s.ok /\ v # "call_nonblocking"
                             THEN "empty" ELSE "none"]
    /\ UNCHANGED <<eventfd, ran, reactor>>

\* Mutant of EventfdWrite: the write does not reach the counter.
EventfdWriteLost(v) == v

\* EventFd::write(1): the counter of the eventfd grows by one.
EventfdWrite(v) == v + 1

\* `self.eventfd.write(1)`; call_nonblocking returns Ok after it.
CallWrite(c) ==
    /\ thread[c].pc = "sent"
    /\ eventfd' = EventfdWrite(eventfd)
    /\ thread' = [thread EXCEPT ![c] =
                     IF thread[c].variant = "call_nonblocking"
                     THEN [@ EXCEPT !.pc = "idle", !.ret = "Ok"]
                     ELSE [@ EXCEPT !.pc = "waiting"]]
    /\ UNCHANGED <<rx, reply, ran, reactor>>

\* Mutant of Received: the caller is always told Ok.
ReceivedOk(r) == "Ok"

\* What the caller returns for the answer of the reply channel: the closure's
\* result, or an error when the closure was dropped without running.
Received(r) == IF r = "dropped" THEN "TxDropped" ELSE r

\* rx.recv() / rx.await / rx.recv_timeout(..) returns: the reply channel has a
\* value or lost its sender.
CallRecv(c) ==
    /\ thread[c].pc = "waiting"
    /\ reply[CallOf(c)] # "empty"
    /\ thread' = [thread EXCEPT ![c].pc = "idle",
                                ![c].ret = Received(reply[CallOf(c)])]
    /\ reply' = [reply EXCEPT ![CallOf(c)] = "closed"]
    /\ UNCHANGED <<rx, eventfd, ran, reactor>>

\* rx.recv_timeout(timeout) gives up: the reply channel is still empty.
CallTimeout(c) ==
    /\ thread[c].pc = "waiting"
    /\ thread[c].variant = "call_blocking_with_timeout"
    /\ reply[CallOf(c)] = "empty"
    /\ thread' = [thread EXCEPT ![c].pc = "idle", ![c].ret = "Timeout"]
    /\ reply' = [reply EXCEPT ![CallOf(c)] = "closed"]
    /\ UNCHANGED <<rx, eventfd, ran, reactor>>

\* Mutant of RxDropped: the queued closures are leaked, no reply sender drops.
RxLeaked(q, rep) == rep

\* Drop of the Subscriber: the Receiver goes, the closures still queued are
\* dropped unrun, and with each its reply sender.
RxDropped(q, rep) ==
    [k \in Calls |-> IF Queued(q, k) /\ rep[k] = "empty" THEN "dropped"
                     ELSE rep[k]]

\* The reactor's owner deletes the eventfd between batches.
EpOwnerDelete ==
    /\ pc = "idle"
    /\ LET k == KernelDel(epoll, EventFd)
           d == DeleteEntry(handling, registered, subscribers, EventFd)
       IN /\ k.ret = "Ok"
          /\ epoll' = k.epoll
          /\ registered' = d.registered
          /\ subscribers' = d.subscribers
          /\ rx' = IF RxAlive(d.subscribers) THEN rx ELSE <<>>
          /\ reply' = IF RxAlive(d.subscribers) THEN reply
                      ELSE RxDropped(rx, reply)
    /\ UNCHANGED <<event_buf, handling, pc, idx, cur, history, eventfd, thread,
                   ran>>

\* epoll_wait of the reactor thread: level-triggered EPOLLIN on the eventfd
\* reports it while its counter is not zero; otherwise the thread stays blocked.
EpRunOnceEnter ==
    /\ pc = "idle"
    /\ ~Recursive(handling)
    /\ epoll[EventFd].armed
    /\ "EPOLLIN" \in epoll[EventFd].events
    /\ eventfd > 0
    /\ event_buf' = <<[events |-> {"EPOLLIN"}, data |-> epoll[EventFd].data,
                       sub |-> epoll[EventFd].sub]>>
    /\ handling' = [some |-> TRUE, fd |-> -1, deferred_remove |-> <<>>]
    /\ pc' = "loop"
    /\ idx' = 1
    /\ UNCHANGED <<registered, epoll, subscribers, cur, history, remote>>

\* The loop of run_once_with_timeout calls Subscriber::handle.
EpDispatch ==
    /\ pc = "loop"
    /\ idx <= Len(event_buf)
    /\ LET view == ViewOf(subscribers, event_buf[idx].data)
       IN /\ ~view.dangling
          /\ handling' = [handling EXCEPT !.fd = subscribers[view.id].fd]
          /\ cur' = view
    /\ pc' = "ep_read"
    /\ UNCHANGED <<registered, epoll, event_buf, subscribers, idx, history,
                   remote>>

\* `let _ = self.eventfd.read();` resets the counter.
EpRead ==
    /\ pc = "ep_read"
    /\ eventfd' = 0
    /\ pc' = "ep_drain"
    /\ UNCHANGED <<registered, epoll, event_buf, handling, subscribers, idx,
                   cur, history, rx, thread, reply, ran>>

\* Mutant of TryRecv: the last closure of the queue is not seen.
TryRecvMissesLast(q) ==
    IF Len(q) <= 1 THEN [ok |-> FALSE, f |-> <<0, 0>>, rx |-> q]
    ELSE [ok |-> TRUE, f |-> Head(q), rx |-> Tail(q)]

\* mpsc::Receiver::try_recv: the closure at the head of the queue, or the
\* error that ends the loop of the handler.
TryRecv(q) ==
    IF q = <<>> THEN [ok |-> FALSE, f |-> <<0, 0>>, rx |-> q]
    ELSE [ok |-> TRUE, f |-> Head(q), rx |-> Tail(q)]

\* Mutant of Forward: the result is stored whatever the reply channel is.
ForwardAlways(rep, res) == res

\* Mutant of Forward: the result never reaches the reply channel.
ForwardNothing(rep, res) == rep

\* `let _ = tx.send(f(ep))`: the result goes to the reply channel unless the
\* caller gave up or the call has none.
Forward(rep, res) == IF rep = "empty" THEN res ELSE rep

\* One turn of `while let Ok(f) = self.rx.try_recv() { f(eventp.as_mut()) }`:
\* the closure at the head runs on the reactor thread with the scoped handle.
\* It returns any result; it may delete the eventfd itself and return what
\* delete returned.
EpRun ==
    /\ pc = "ep_drain"
    /\ TryRecv(rx).ok
    /\ \E del \in BOOLEAN, r \in Results :
          LET k == TryRecv(rx).f
              kd == KernelDel(epoll, EventFd)
              d == DeleteEntry(handling, registered, subscribers, EventFd)
              res == IF ~del THEN r
                     ELSE IF kd.ret = "Ok" THEN "Ok" ELSE "NotFound"
          IN /\ del => r = "Ok"
             /\ rx' = TryRecv(rx).rx
             /\ ran' = [ran EXCEPT ![k] = Append(@, res)]
             /\ reply' = [reply EXCEPT ![k] = Forward(@, res)]
             /\ epoll' = IF del THEN kd.epoll ELSE epoll
             /\ handling' = IF del /\ kd.ret = "Ok" THEN d.handling ELSE handling
    /\ UNCHANGED <<registered, event_buf, subscribers, pc, idx, cur, history,
                   eventfd, thread>>

\* try_recv finds the queue empty: the handler returns.
EpHandlerReturn ==
    /\ pc = "ep_drain"
    /\ ~TryRecv(rx).ok
    /\ pc' = "loop"
    /\ idx' = idx + 1
    /\ cur' = NoView
    /\ UNCHANGED <<registered, epoll, event_buf, handling, subscribers,
                   history, remote>>

\* The end of run_once_with_timeout: a deferred removal of the eventfd drops
\* the Subscriber.
EpFinish ==
    /\ pc = "loop"
    /\ idx > Len(event_buf)
    /\ LET r == RemoveAll(registered, subscribers, handling.deferred_remove)
       IN /\ registered' = r.registered
          /\ subscribers' = r.subscribers
          /\ rx' = IF RxAlive(r.subscribers) THEN rx ELSE <<>>
          /\ reply' = IF RxAlive(r.subscribers) THEN reply
                      ELSE RxDropped(rx, reply)
    /\ handling' = NoHandling
    /\ pc' = "idle"
    /\ idx' = 0
    /\ event_buf' = <<>>
    /\ UNCHANGED <<epoll, cur, history, eventfd, thread, ran>>

\* The owner drops the reactor between batches: the table goes with its
\* subscribers, the epoll descriptor is closed.
EpTeardown ==
    /\ pc = "idle"
    /\ pc' = "gone"
    /\ registered' = [f \in Fds |-> 0]
    /\ subscribers' = DropTable(registered, subscribers)
    /\ epoll' = [f \in Fds |-> NoEntry]
    /\ rx' = IF RxAlive(subscribers') THEN rx ELSE <<>>
    /\ reply' = IF RxAlive(subscribers') THEN reply ELSE RxDropped(rx, reply)
    /\ UNCHANGED <<event_buf, handling, idx, cur, history, eventfd, thread, ran>>

\* The closure at the head of the queue panics while it runs: the reactor
\* thread dies. Unwinding drops the closure with its reply sender, and in
\* run_once_with_timeout the local `subscriber`, which mem::forget has not
\* reached: the Subscriber is dropped through the view of the loop.
EpPanic ==
    /\ pc = "ep_drain"
    /\ TryRecv(rx).ok
    /\ ran' = [ran EXCEPT ![TryRecv(rx).f] = Append(@, "panic")]
    /\ subscribers' = DropBox(subscribers, cur.id)
    /\ rx' = <<>>
    /\ reply' = RxDropped(rx, reply)
    /\ pc' = "panicked"
    /\ UNCHANGED <<registered, epoll, event_buf, handling, idx, cur, history,
                   eventfd, thread>>

\* Unwinding goes on into the frame that owns the reactor: the table is
\* dropped while it still holds the entry of the Subscriber.
EpUnwind ==
    /\ pc = "panicked"
    /\ pc' = "gone"
    /\ registered' = [f \in Fds |-> 0]
    /\ subscribers' = DropTable(registered, subscribers)
    /\ epoll' = [f \in Fds |-> NoEntry]
    /\ UNCHANGED <<event_buf, handling, idx, cur, history, remote>>

ReactorThread ==
    \/ EpRunOnceEnter
    \/ EpDispatch
    \/ EpRead
    \/ EpRun
    \/ EpHandlerReturn
    \/ EpFinish

NextEndpoint ==
    \/ \E c \in Callers : CallSend(c)
    \/ \E c \in Callers : CallWrite(c)
    \/ \E c \in Callers : CallRecv(c)
    \/ \E c \in Callers : CallTimeout(c)
    \/ EpOwnerDelete
    \/ EpTeardown
    \/ EpPanic
    \/ EpUnwind
    \/ EpRunOnceEnter
    \/ EpDispatch
    \/ EpRead
    \/ EpRun
    \/ EpHandlerReturn
    \/ EpFinish

\* The reactor thread keeps running batches, and a thread inside a call goes on
\* to write the eventfd and to take the answer of the reply channel.
SpecEndpoint ==
    /\ InitEndpoint
    /\ [][NextEndpoint]_vars
    /\ WF_vars(ReactorThread)
    /\ \A c \in Callers : WF_vars(CallWrite(c)) /\ WF_vars(CallRecv(c))


\* ---- examples/echo-server.rs: on_data ---------------------------------------
\* One invocation of on_data by the dispatch loop, for the subscriber of an
\* accepted stream. The stream is the environment: what its reads return is a
\* script drawn at the start, a read past the script finds no data
\* (WouldBlock); write_all succeeds or fails after a prefix of the chunk.

\* The fd of the stream, its subscriber and the heap block of the latter.
StreamFd == 1
StreamSub == 1
StreamAddr == 1

\* on_connection registers the stream with interest().edge_triggered().read().
StreamInterest == {"EPOLLET", "EPOLLIN"}

Bytes == {"a", "b"}

RECURSIVE SeqsUpTo(_, _)
\* The sequences over S of length 1..n.
SeqsUpTo(S, n) ==
    IF n = 0 THEN {}
    ELSE LET shorter == SeqsUpTo(S, n - 1)
         IN {<<x>> : x \in S} \cup shorter
            \cup {Append(q, x) : q \in shorter, x \in S}

\* What a read fills into the buffer when it returns Ok(n), n > 0.
Chunks == SeqsUpTo(Bytes, MaxChunk)

\* What Read::read returns: Ok(n) with a chunk, Ok(0), Err(WouldBlock), or
\* another error.
ReadResults ==
    {[kind |-> "Ok", data |-> c] : c \in Chunks}
    \cup {[kind |-> k, data |-> <<>>] : k \in {"EOF", "WouldBlock", "Err"}}

\* The flags an event can carry to on_data.
EventFlags == {"EPOLLIN", "EPOLLERR", "EPOLLHUP"}

\* Mutant of is_hangup: a hangup is never seen.
is_hangup_never(ev) == FALSE

\* Event::is_error, Event::is_hangup, Event::is_readable.
is_error(ev) == "EPOLLERR" \in ev
is_hangup(ev) == "EPOLLHUP" \in ev
is_readable(ev) == "EPOLLIN" \in ev

\* The dispatch loop is about to call on_data: the stream is in the table, the
\* event is in the buffer. `armed`: unless a handler that ran earlier in the
\* batch deleted the stream's fd, its kernel entry is there.
InitEcho ==
    /\ \E armed \in BOOLEAN, ev \in (SUBSET EventFlags) \ {{}},
          script \in {<<>>} \cup SeqsUpTo(ReadResults, MaxReads) :
          /\ epoll = [f \in Fds |->
                         IF f = StreamFd /\ armed
                         THEN [armed |-> TRUE, events |-> StreamInterest,
                               data |-> StreamAddr, sub |-> StreamSub]
                         ELSE NoEntry]
          /\ handling = [some |-> TRUE, fd |-> StreamFd,
                         deferred_remove |-> IF armed THEN <<>>
                                             ELSE <<StreamFd>>]
          /\ event_buf = <<[events |-> ev, data |-> StreamAddr,
                            sub |-> StreamSub]>>
          /\ echo = [pc |-> "start", ev |-> ev, script |-> script,
                     inp |-> <<>>, out |-> <<>>, reads |-> 0, writes |-> 0,
                     deletes |-> 0, closed |-> FALSE]
    /\ registered = [f \in Fds |-> IF f = StreamFd THEN StreamSub ELSE 0]
    /\ subscribers = ThinBoxNew([i \in Ids |-> NoSub], StreamSub, StreamFd,
                                StreamInterest, StreamAddr)
    /\ pc = "handler"
    /\ idx = 1
    /\ cur = [id |-> StreamSub, dangling |-> FALSE]
    /\ calls = <<>>
    /\ ops = 0
    /\ last = NoCall
    /\ self_deleted = {}
    /\ batch_added = {}
    /\ repeated = FALSE
    /\ forever = FALSE
    /\ built = NoBuilt
    /\ dropped = <<>>
    /\ NoRemote

\* `eventp.delete(stream.as_fd().as_raw_fd()).expect(..)`: on_data goes on to
\* `next` when delete returned Ok and panics otherwise.
DeleteExpect(next) ==
    /\ Pinned_delete(StreamFd)
    /\ echo' = [echo EXCEPT !.deletes = @ + 1,
                            !.pc = IF last'.ret = "Ok" THEN next
                                   ELSE "panicked"]

\* `if ev.is_error() || ev.is_hangup() { delete }`
OnDataHangup ==
    /\ echo.pc = "start"
    /\ IF is_error(echo.ev) \/ is_hangup(echo.ev)
       THEN DeleteExpect("checked")
       ELSE /\ echo' = [echo EXCEPT !.pc = "checked"]
            /\ UNCHANGED <<epoll, last, handling, registered, subscribers>>
    /\ UNCHANGED <<event_buf, pc, idx, cur, calls, ops, self_deleted,
                   batch_added, repeated, forever, built, dropped, remote>>

\* `if !ev.is_readable() { return; }`
OnDataReadable ==
    /\ echo.pc = "checked"
    /\ echo' = [echo EXCEPT !.pc = IF is_readable(echo.ev) THEN "loop"
                                   ELSE "returned"]
    /\ UNCHANGED <<registered, epoll, event_buf, handling, subscribers, pc,
                   idx, cur, calls, ops, last, self_deleted, batch_added,
                   repeated, forever, built, dropped, remote>>

\* Mutant of WriteAll: the chunk is written back without its first byte.
WriteAllTail(out, chunk, ok, n) == Tail(chunk)

\* What Write::write_all has put on the stream when it returns: the chunk when
\* it returns Ok, the first n bytes of it when it returns an error.
WriteAll(out, chunk, ok, n) ==
    IF ok THEN chunk ELSE SubSeq(chunk, 1, n)

\* One turn of the loop: `match stream.read(&mut buf)`.
OnDataRead ==
    /\ echo.pc = "loop"
    /\ LET r == IF echo.script = <<>>
               THEN [kind |-> "WouldBlock", data |-> <<>>]
               ELSE Head(echo.script)
           rest == IF echo.script = <<>> THEN <<>> ELSE Tail(echo.script)
           read == [echo EXCEPT !.script = rest, !.reads = @ + 1]
       IN CASE r.kind = "WouldBlock" ->
                 /\ echo' = [read EXCEPT !.pc = "returned"]
                 /\ UNCHANGED <<epoll, last, handling, registered, subscribers>>
            [] r.kind \in {"EOF", "Err"} ->
                 /\ Pinned_delete(StreamFd)
                 /\ echo' = [read EXCEPT !.closed = TRUE,
                                         !.deletes = @ + 1,
                                         !.pc = IF last'.ret = "Ok"
                                                THEN "returned"
                                                ELSE "panicked"]
            [] r.kind = "Ok" ->
                 /\ \E ok \in BOOLEAN, n \in 0..(Len(r.data) - 1) :
                       /\ ok => n = 0
                       /\ echo' = [read EXCEPT
                                      !.inp = Append(@, r.data),
                                      !.writes = @ + 1,
                                      !.out = @ \o WriteAll(@, r.data, ok, n),
                                      !.pc = IF ok THEN "loop" ELSE "panicked"]
                 /\ UNCHANGED <<epoll, last, handling, registered, subscribers>>
    /\ UNCHANGED <<event_buf, pc, idx, cur, calls, ops, self_deleted,
                   batch_added, repeated, forever, built, dropped, remote>>

NextEcho ==
    \/ OnDataHangup
    \/ OnDataReadable
    \/ OnDataRead

SpecEcho == InitEcho /\ [][NextEcho]_vars

\* ---- interest.rs: the Interest builder ---------------------------------------
\* An Interest wraps an EpollFlags mask: here the set of the names of its bits.

\* `interest()`: Interest::new(EpollFlags::empty()).
interest == {}

\* Mutant of Interest_add: the new flags replace the mask.
Interest_add_replaces(self, flags) == flags

\* Interest::add: Self(self.0.union(flags)).
Interest_add(self, flags) == self \cup flags

\* Mutant of Interest_remove: every flag but the given ones is cleared.
Interest_remove_keeps(self, flags) == self \cap flags

\* Interest::remove: Self(self.0.difference(flags)).
Interest_remove(self, flags) == self \ flags

read(self) == Interest_add(self, {"EPOLLIN"})
write(self) == Interest_add(self, {"EPOLLOUT"})
read_write(self) == write(read(self))
rdhup(self) == Interest_add(self, {"EPOLLRDHUP"})
pri(self) == Interest_add(self, {"EPOLLPRI"})
edge_triggered(self) == Interest_add(self, {"EPOLLET"})
oneshot(self) == Interest_add(self, {"EPOLLONESHOT"})
wakeup(self) == Interest_add(self, {"EPOLLWAKEUP"})
exclusive(self) == Interest_add(self, {"EPOLLEXCLUSIVE"})

remove_read(self) == Interest_remove(self, {"EPOLLIN"})
remove_write(self) == Interest_remove(self, {"EPOLLOUT"})
remove_rdhup(self) == Interest_remove(self, {"EPOLLRDHUP"})
remove_pri(self) == Interest_remove(self, {"EPOLLPRI"})
remove_edge_triggered(self) == Interest_remove(self, {"EPOLLET"})
remove_oneshot(self) == Interest_remove(self, {"EPOLLONESHOT"})
remove_wakeup(self) == Interest_remove(self, {"EPOLLWAKEUP"})
remove_exclusive(self) == Interest_remove(self, {"EPOLLEXCLUSIVE"})

AddMethods == {"read", "write", "read_write", "rdhup", "pri",
               "edge_triggered", "oneshot", "wakeup", "exclusive"}

RemoveMethods == {"remove_read", "remove_write", "remove_rdhup", "remove_pri",
                  "remove_edge_triggered", "remove_oneshot", "remove_wakeup",
                  "remove_exclusive"}

\* The builder call `self.m()`.
BuilderCall(m, self) ==
    CASE m = "read" -> read(self)
      [] m = "write" -> write(self)
      [] m = "read_write" -> read_write(self)
      [] m = "rdhup" -> rdhup(self)
      [] m = "pri" -> pri(self)
      [] m = "edge_triggered" -> edge_triggered(self)
      [] m = "oneshot" -> oneshot(self)
      [] m = "wakeup" -> wakeup(self)
      [] m = "exclusive" -> exclusive(self)
      [] m = "remove_read" -> remove_read(self)
      [] m = "remove_write" -> remove_write(self)
      [] m = "remove_rdhup" -> remove_rdhup(self)
      [] m = "remove_pri" -> remove_pri(self)
      [] m = "remove_edge_triggered" -> remove_edge_triggered(self)
      [] m = "remove_oneshot" -> remove_oneshot(self)
      [] m = "remove_wakeup" -> remove_wakeup(self)
      [] m = "remove_exclusive" -> remove_exclusive(self)

\* A chain starts at `interest()`.
InitInterest ==
    /\ built = [mask |-> interest, calls |-> <<>>]
    /\ dropped = <<>>
    /\ echo = NoEcho
    /\ registered = [f \in Fds |-> 0]
    /\ epoll = [f \in Fds |-> NoEntry]
    /\ event_buf = <<>>
    /\ handling = NoHandling
    /\ subscribers = [i \in Ids |-> NoSub]
    /\ pc = "idle"
    /\ idx = 0
    /\ cur = NoView
    /\ calls = <<>>
    /\ ops = 0
    /\ last = NoCall
    /\ self_deleted = {}
    /\ batch_added = {}
    /\ repeated = FALSE
    /\ forever = FALSE
    /\ NoRemote

\* One more call of the chain, of method m.
Chain(m) ==
    /\ Len(built.calls) < MaxChain
    /\ built' = [mask |-> BuilderCall(m, built.mask),
                 calls |-> Append(built.calls, m)]
    /\ UNCHANGED <<registered, epoll, event_buf, handling, subscribers, pc,
                   idx, cur, calls, ops, last, self_deleted, batch_added,
                   repeated, forever, echo, dropped, remote>>

ChainAdd == \E m \in AddMethods : Chain(m)

ChainRemove == \E m \in RemoveMethods : Chain(m)

NextInterest ==
    \/ ChainAdd
    \/ ChainRemove

SpecInterest == InitInterest /\ [][NextInterest]_vars

\* ---- step predicates used by the properties ---------------------------------

\* The step is an add that returned (every add consumes a new subscriber id).
AddReturned == last' # last /\ last'.op = "add"

\* The step is a delete that returned Ok.
DeleteSucceeded == last' # last /\ last'.op = "delete" /\ last'.ret = "Ok"

\* The step is the Ok return of run_once_with_timeout.
RunOnceReturned == pc = "loop" /\ pc' = "idle"

InDeferred(h, f) ==
    \E i \in 1..Len(h.deferred_remove) : h.deferred_remove[i] = f

\* ---- C1 ---------------------------------------------------------------------

\* C1: every handler invocation made by run_once_with_timeout targets a
\* subscriber that is owned by the registration table and has not been
\* destructed, whatever adds, modifies and deletes came before.
C1_HandlerTargetIsOwned ==
    pc = "handler" =>
        /\ ~cur.dangling
        /\ Live(subscribers, cur.id)
        /\ registered[subscribers[cur.id].fd] = cur.id

\* ---- C2 ---------------------------------------------------------------------

\* C2: a delete(fd) that succeeds while a batch is dispatched appends fd to
\* deferred_remove and leaves the table alone; the table entry of a deferred fd
\* stays as it is for as long as the batch is dispatched; the entry is gone
\* when run_once_with_timeout returns.
C2_DeferredEntryStays ==
    [][ /\ (handling.some /\ DeleteSucceeded) =>
              /\ handling'.deferred_remove = Append(handling.deferred_remove, last'.fd)
              /\ registered' = registered
        /\ (handling.some /\ handling'.some) =>
              \A f \in Fds : InDeferred(handling, f) => registered'[f] = registered[f]
        /\ RunOnceReturned =>
              \A f \in Fds : InDeferred(handling, f) => registered'[f] = 0
      ]_vars

\* ---- C3 ---------------------------------------------------------------------

\* C3: the destructor of a subscriber whose handler deletes its own fd does
\* not run while that handler runs; when run_once returns, the table does not
\* contain the fd and the subscriber has been destructed exactly once (and at
\* no time more than once).
C3_SelfDeleteSafe ==
    [][ /\ (pc = "handler" /\ cur.id \in self_deleted') =>
              subscribers'[cur.id].drops = subscribers[cur.id].drops
        /\ RunOnceReturned =>
              \A s \in self_deleted :
                  /\ registered'[subscribers[s].fd] = 0
                  /\ subscribers'[s].drops = 1
        /\ \A s \in self_deleted' : subscribers'[s].drops <= 1
      ]_vars

\* C3 witness: run_once has returned Ok after the handler of a subscriber
\* deleted its own fd; the fd is gone from the table and from the kernel.
C3_Witness ==
    /\ pc = "idle"
    /\ last.op = "run_once" /\ last.ret = "Ok"
    /\ \E s \in self_deleted :
          /\ registered[subscribers[s].fd] = 0
          /\ subscribers[s].drops = 1
          /\ ~epoll[subscribers[s].fd].armed

\* ---- C4 ---------------------------------------------------------------------

\* C4: when the fd of a reported event was deleted by an earlier handler of the
\* same batch, the handler of the subscriber the event was reported for is
\* still invoked, and the fd is absent from the table once the batch completed.
C4_DeletedStillDispatched ==
    [][ /\ ( /\ pc = "loop" /\ pc' # "loop"
             /\ idx <= Len(event_buf)
             /\ InDeferred(handling, subscribers[event_buf[idx].sub].fd) ) =>
              /\ pc' = "handler"
              /\ cur'.id = event_buf[idx].sub
              /\ ~cur'.dangling
        /\ RunOnceReturned =>
              \A f \in Fds : InDeferred(handling, f) => registered'[f] = 0
      ]_vars

\* ---- C5 ---------------------------------------------------------------------

\* C5: while the event of fd F is dispatched, add of a subscriber on F returns
\* the self-replacement error, issues no epoll_ctl, leaves table and kernel set
\* unchanged, and the subscriber being handled stays registered and alive.
C5_SelfAddRejected ==
    [][ (AddReturned /\ pc = "handler" /\ handling.fd = last'.fd) =>
            /\ last'.ret = "SelfReplacement"
            /\ ~last'.ctl
            /\ registered' = registered
            /\ epoll' = epoll
            /\ handling' = handling
            /\ (Live(subscribers, cur.id) => Live(subscribers', cur.id))
            /\ subscribers'[last'.id].drops = 1
      ]_vars

\* C5 witness: a handler's add on its own fd was just rejected, and the handled
\* subscriber is still the live owner of the table entry.
C5_Witness ==
    /\ pc = "handler"
    /\ last.op = "add" /\ last.ret = "SelfReplacement"
    /\ last.fd = handling.fd
    /\ ~cur.dangling /\ Live(subscribers, cur.id)
    /\ registered[last.fd] = cur.id
    /\ epoll[last.fd].armed

\* ---- C6 ---------------------------------------------------------------------

\* C6: a subscriber a handler added successfully, with no delete of its fd
\* issued after that add, is in the table and armed in the kernel with its own
\* cookie when run_once returns.
C6_AddedInBatchSurvives ==
    [][ RunOnceReturned =>
            \A s \in batch_added :
                /\ registered'[subscribers[s].fd] = s
                /\ Live(subscribers', s)
                /\ epoll'[subscribers[s].fd].armed
                /\ epoll'[subscribers[s].fd].data = subscribers[s].ptr
      ]_vars

\* ---- C7 ---------------------------------------------------------------------

\* C7: when run_once_with_timeout returns Ok, exactly the subscribers the
\* reported cookies identified had their handlers invoked, once per event and
\* in the reported order.
C7_OncePerEventInOrder ==
    [][ RunOnceReturned =>
            /\ Len(calls) = Len(event_buf)
            /\ \A i \in 1..Len(event_buf) :
                  /\ calls[i].data = event_buf[i].data
                  /\ calls[i].id = event_buf[i].sub
                  /\ calls[i].live
      ]_vars

\* ---- C8 ---------------------------------------------------------------------

\* C8: add of a subscriber whose fd already has a registered subscriber
\* succeeds; the table then maps the fd to the new subscriber and the prior
\* one has been destructed exactly once.
C8_AddReplaces ==
    [][ (AddReturned /\ registered[last'.fd] # 0) =>
            /\ last'.ret = "Ok"
            /\ registered'[last'.fd] = last'.id
            /\ subscribers'[registered[last'.fd]].drops = 1
      ]_vars

\* ---- C9 ---------------------------------------------------------------------

C10_FailedAddDropsArgument ==
    [][ (AddReturned /\ last'.ctl /\ epoll' = epoll) =>
            /\ last'.ret \in {"EEXIST", "ENOSPC"}
            /\ registered' = registered
            /\ subscribers'[last'.id].drops = 1
            /\ \A i \in Ids \ {last'.id} : subscribers'[i] = subscribers[i]
      ]_vars

\* C10 witness: the kernel refused a watch on an unarmed fd; the subscriber
\* passed in is destructed and is not in the table.
C10_Witness ==
    /\ last.op = "add" /\ last.ret = "ENOSPC"
    /\ ~epoll[last.fd].armed
    /\ subscribers[last.id].drops = 1
    /\ registered[last.fd] # last.id


\* ---- C11 --------------------------------------------------------------------

\* The step is a modify(fd, _) that returned.
ModifyReturned(fd) ==
    /\ last'.op = "modify"
    /\ last'.fd = fd
    /\ (last' # last \/ ops' # ops)

\* C11: modify(fd, i) for an fd without a table entry returns NotFound, issues
\* no epoll_ctl, and leaves the table, the kernel set and every interest cell
\* as they were.
C11_ModifyUnregistered ==
    [][ \A fd \in Fds :
           (registered[fd] = 0 /\ ModifyReturned(fd)) =>
               /\ last'.ret = "NotFound"
               /\ ~last'.ctl
               /\ registered' = registered
               /\ epoll' = epoll
               /\ \A id \in Ids :
                      subscribers'[id].interest = subscribers[id].interest
      ]_vars

\* A modify of an unregistered fd returned while another fd is registered and
\* armed.
C11_Witness ==
    /\ last.op = "modify"
    /\ last.ret = "NotFound"
    /\ registered[last.fd] = 0
    /\ \E f \in Fds : registered[f] # 0 /\ epoll[f].armed


\* ---- C12 --------------------------------------------------------------------

\* The step is the call modify(fd, interest), by the owner between batches or
\* by the running handler.
ModifyCalled(fd, mask) ==
    /\ ModifyReturned(fd)
    /\ modify(fd, mask)

\* C12: whenever modify(fd, i) returns Ok, between batches or in a handler,
\* the kernel entry of fd is armed with exactly i and carries the cookie it
\* carried before, and the interest cell of the subscriber of fd reads i.
C12_ModifyOk ==
    [][ \A fd \in Fds, i \in Interests :
           (ModifyCalled(fd, i) /\ last'.ret = "Ok") =>
               /\ epoll'[fd].armed
               /\ epoll'[fd].events = i
               /\ epoll'[fd].data = epoll[fd].data
               /\ epoll'[fd].sub = epoll[fd].sub
               /\ registered'[fd] = registered[fd]
               /\ registered[fd] # 0
               /\ subscribers'[registered[fd]].interest = i
      ]_vars

\* The handler of fd changed the interest of its own fd.
C12_Witness ==
    /\ pc = "handler"
    /\ ~cur.dangling
    /\ last.op = "modify"
    /\ last.ret = "Ok"
    /\ last.fd = subscribers[cur.id].fd
    /\ registered[last.fd] = cur.id
    /\ epoll[last.fd].events # event_buf[idx].events
    /\ subscribers[cur.id].interest = epoll[last.fd].events


\* ---- C13 --------------------------------------------------------------------

\* C13: when the kernel rejects EPOLL_CTL_MOD (the table has an entry for fd,
\* and the epoll set has none or EPOLLEXCLUSIVE is involved), modify returns
\* the kernel's error and the interest cells, the table and the kernel entry
\* of fd are unchanged.
C13_ModifyRejected ==
    [][ \A fd \in Fds :
           /\ (registered[fd] # 0 /\ ~epoll[fd].armed /\ ModifyReturned(fd)) =>
                 /\ last'.ctl
                 /\ last'.ret \in {"ENOENT", "EINVAL"}
           /\ (registered[fd] # 0 /\ ModifyReturned(fd) /\ last'.ret # "Ok") =>
                 /\ last'.ctl
                 /\ last'.ret \in {"ENOENT", "EINVAL"}
                 /\ subscribers' = subscribers
                 /\ registered' = registered
                 /\ epoll' = epoll
      ]_vars

\* A handler modified an fd whose kernel entry a delete of this batch removed
\* while the table still has its subscriber.
C13_Witness ==
    /\ pc = "handler"
    /\ last.op = "modify"
    /\ last.ret = "ENOENT"
    /\ registered[last.fd] # 0
    /\ Live(subscribers, registered[last.fd])
    /\ InDeferred(handling, last.fd)


\* ---- C14 --------------------------------------------------------------------

\* C14: a successful modify(fd, i) that directly follows a successful
\* modify(fd, i) of the same caller leaves the kernel entry of fd, the interest
\* cells and the table as the first one left them.
C14_ModifyTwice ==
    [][ \A fd \in Fds, i \in Interests :
           (ModifyCalled(fd, i) /\ repeated') =>
               /\ last.op = "modify" /\ last.ret = "Ok" /\ last'.ret = "Ok"
               /\ epoll' = epoll
               /\ subscribers' = subscribers
               /\ registered' = registered
      ]_vars

\* The running handler called modify(fd, i) twice in a row, both returned Ok.
C14_Witness ==
    /\ repeated
    /\ last.op = "modify"
    /\ last.ret = "Ok"
    /\ pc = "handler"
    /\ ops = 2
    /\ epoll[last.fd].events # event_buf[idx].events


\* ---- C15 --------------------------------------------------------------------

\* The step is a delete(fd) that returned.
DeleteReturned(fd) ==
    /\ last'.op = "delete"
    /\ last'.fd = fd
    /\ (last' # last \/ ops' # ops)

\* C15: when EPOLL_CTL_DEL fails (the epoll set has no entry for fd), delete
\* returns the kernel's error, removes no table entry, destructs nothing and
\* appends nothing to deferred_remove, during dispatch and outside it.
C15_DeleteRejected ==
    [][ \A fd \in Fds :
           (~epoll[fd].armed /\ DeleteReturned(fd)) =>
               /\ last'.ret = "ENOENT"
               /\ registered' = registered
               /\ handling' = handling
               /\ subscribers' = subscribers
               /\ epoll' = epoll
      ]_vars

\* A handler deleted an fd a second time: the first delete is deferred, the
\* table still has the entry, the second delete failed.
C15_Witness ==
    /\ pc = "handler"
    /\ last.op = "delete"
    /\ last.ret = "ENOENT"
    /\ registered[last.fd] # 0
    /\ handling.deferred_remove = <<last.fd>>


\* ---- C16 --------------------------------------------------------------------

\* C16: a delete(fd) that is called while no batch is dispatched and that the
\* kernel accepts has removed the table entry of fd when it returns; the
\* subscriber it removed was not destructed before and is destructed once by
\* the call, and no other subscriber is touched.
C16_DeleteOutsideDispatch ==
    [][ \A fd \in Fds :
           (~handling.some /\ DeleteReturned(fd) /\ last'.ret = "Ok") =>
               /\ registered'[fd] = 0
               /\ \A f \in Fds \ {fd} : registered'[f] = registered[f]
               /\ ~handling'.some
               /\ handling'.deferred_remove = <<>>
               /\ \A id \in Ids :
                      IF id = registered[fd]
                      THEN subscribers[id].drops = 0 /\ subscribers'[id].drops = 1
                      ELSE subscribers'[id] = subscribers[id]
      ]_vars

\* Between batches a delete took a subscriber out of the table and destructed
\* it, while another fd stays registered.
C16_Witness ==
    /\ pc = "idle"
    /\ last.op = "delete"
    /\ last.ret = "Ok"
    /\ last.id # 0
    /\ registered[last.fd] = 0
    /\ subscribers[last.id].drops = 1
    /\ \E f \in Fds : registered[f] # 0


\* ---- C17 --------------------------------------------------------------------

\* C17: run_forever never returns Ok. Inside run_forever, after a run_once that
\* returned Ok or Interrupted the loop goes on; after a run_once that returned
\* another error run_forever returns, with exactly that error. A run_once
\* called by the owner returns the Interrupted error to the owner.
C17_RunForever ==
    [][ /\ (last'.op = "run_forever" /\ last' # last) =>
              /\ last'.ret \notin {"Ok", "EINTR"}
              /\ forever /\ ~forever'
              /\ last.op = "run_once"
              /\ last'.ret = last.ret
        /\ (forever /\ last.op = "run_once" /\ last.ret \in {"Ok", "EINTR"}) =>
              /\ forever'
              /\ last'.op # "run_forever"
        /\ (forever /\ last.op = "run_once" /\ last.ret \notin {"Ok", "EINTR"}) =>
              /\ ~forever'
              /\ last'.op = "run_forever"
        /\ (~forever /\ last'.op = "run_once" /\ last'.ret = "EINTR"
                     /\ last' # last) =>
              /\ ~forever'
              /\ pc' = "idle"
              /\ UNCHANGED <<registered, epoll, subscribers, handling>>
      ]_vars

\* run_forever returned the failure of epoll_wait while subscribers are
\* registered.
C17_Witness ==
    /\ ~forever
    /\ last.op = "run_forever"
    /\ last.ret = "EBADF"
    /\ \E f \in Fds : registered[f] # 0 /\ epoll[f].armed

\* ---- C18 --------------------------------------------------------------------

\* The step is a call of the running handler that is none of add, modify and
\* delete, and not its return: a nested run_once_with_timeout.
NestedRun ==
    /\ pc = "handler"
    /\ last'.op \notin {"add", "modify", "delete"}
    /\ ~(pc' = "loop" /\ idx' = idx + 1)

\* C18: run_once_with_timeout called while `handling` is present panics with
\* the recursive-call message; epoll_wait is not called (the event buffer is
\* not rewritten) and no reactor state is changed.
C18_NestedRunPanics ==
    [][ (handling.some /\ NestedRun) =>
            /\ pc' = "panicked"
            /\ last'.ret = "panic"
            /\ UNCHANGED <<registered, epoll, event_buf, handling, subscribers,
                           idx, cur, calls, forever>>
      ]_vars

\* A handler that had deleted an fd started a nested run: the panic leaves the
\* deferred removal and the batch as they were.
C18_Witness ==
    /\ pc = "panicked"
    /\ handling.some
    /\ handling.deferred_remove # <<>>
    /\ Len(event_buf) = 2
    /\ idx = 1


\* ---- C19 --------------------------------------------------------------------

\* The Subscriber of the endpoint is in the table and armed in the kernel.
EpRegistered ==
    /\ registered[EventFd] = EpSub
    /\ epoll[EventFd].armed
    /\ RxAlive(subscribers)

\* Thread c is inside a call_blocking whose closure is queued or was taken.
InCallBlocking(c) ==
    /\ thread[c].pc \in {"sent", "waiting"}
    /\ thread[c].variant = "call_blocking"

\* Thread c is back from its call_blocking with the result of the one run of
\* its closure.
CallBlockingDone(c) ==
    /\ thread[c].pc = "idle"
    /\ thread[c].variant = "call_blocking"
    /\ thread[c].ret \in Results
    /\ ran[CallOf(c)] = <<thread[c].ret>>

\* C19: under SpecEndpoint (the reactor thread keeps running batches), a
\* call_blocking made by another thread while the Subscriber is registered
\* ends, unless the Subscriber is unregistered meanwhile, with the caller
\* unblocked; no closure runs twice, closures run only inside the handler on
\* the reactor thread, and a caller that is back with a result has exactly
\* the result of the one run of its closure.
C19_CallBlocking ==
    /\ [](\A k \in Calls : Len(ran[k]) <= 1)
    /\ [][\A k \in Calls : ran'[k] # ran[k] =>
              pc = "ep_drain" /\ handling.some /\ ~cur.dangling]_vars
    /\ [](\A c \in Callers :
             (/\ thread[c].pc = "idle"
              /\ thread[c].variant = "call_blocking"
              /\ thread[c].ret \notin {"none", "SubscriberDropped", "TxDropped"})
             => CallBlockingDone(c))
    /\ \A c \in Callers :
          InCallBlocking(c) ~> (CallBlockingDone(c) \/ ~EpRegistered)

\* A call_blocking returned what its closure returned while the Subscriber is
\* still registered and the other thread is inside a call.
C19_Witness ==
    \E c \in Callers :
        /\ CallBlockingDone(c)
        /\ thread[c].ret = "NotFound"
        /\ EpRegistered
        /\ \E d \in Callers \ {c} : thread[d].pc = "waiting"

\* ---- C20 --------------------------------------------------------------------

\* The step is the start of a call of thread c.
CallStarted(c) == thread'[c].n = thread[c].n + 1

\* C20: a call of any of the four kinds that starts after the Subscriber was
\* dropped returns the subscriber-dropped error at once: its closure is not
\* queued and is never run, and the eventfd is not written.
C20_CallAfterDrop ==
    [][ /\ \A c \in Callers :
              (CallStarted(c) /\ ~RxAlive(subscribers)) =>
                  /\ thread'[c].pc = "idle"
                  /\ thread'[c].ret = "SubscriberDropped"
                  /\ rx' = rx
                  /\ eventfd' = eventfd
                  /\ ran' = ran
        /\ \A c \in Callers :
              thread[c].ret = "SubscriberDropped" =>
                  /\ ran'[CallOf(c)] = <<>>
                  /\ ~Queued(rx', CallOf(c))
      ]_vars

\* Both threads called after the owner deleted the eventfd, one of them with
\* call_nonblocking, the other with a blocking kind.
C20_Witness ==
    /\ ~RxAlive(subscribers)
    /\ \A c \in Callers : thread[c].ret = "SubscriberDropped"
    /\ \E c \in Callers : thread[c].variant = "call_nonblocking"
    /\ \E c \in Callers : thread[c].variant = "call_blocking_async"
    /\ eventfd = 0


\* ---- C21 --------------------------------------------------------------------

\* Thread c is inside a call_blocking whose closure did not run, and the
\* Subscriber is dropped: the closure was queued when the Subscriber went.
Orphaned(c) ==
    /\ InCallBlocking(c)
    /\ ~RxAlive(subscribers)
    /\ ran[CallOf(c)] = <<>>

\* C21: when the Subscriber is dropped (delete by the reactor's owner or by a
\* closure, drop of the reactor, death of the reactor thread) while the
\* closure of a call_blocking is queued and has not run, the closure is
\* dropped with its reply sender and never runs, and the caller returns with
\* the error of the reply channel.
C21_DroppedWhileQueued ==
    /\ [](\A c \in Callers :
             Orphaned(c) =>
                 /\ reply[CallOf(c)] = "dropped"
                 /\ ~Queued(rx, CallOf(c)))
    /\ [][~RxAlive(subscribers) => ran' = ran]_vars
    /\ \A c \in Callers :
          Orphaned(c) ~> (/\ thread[c].pc = "idle"
                          /\ thread[c].ret = "TxDropped"
                          /\ ran[CallOf(c)] = <<>>)

\* The reactor thread died in the closure of one thread while the closure of
\* the other was queued behind it: the other thread is back with the error and
\* its closure did not run.
C21_Witness ==
    /\ pc \in {"panicked", "gone"}
    /\ \E c \in Callers :
          /\ thread[c].pc = "idle"
          /\ thread[c].variant = "call_blocking"
          /\ thread[c].ret = "TxDropped"
          /\ ran[CallOf(c)] = <<>>
          /\ \E d \in Callers \ {c} :
                thread[d].n > 0 /\ ran[CallOf(d)] = <<"panic">>

\* ---- on_data of the echo server ---------------------------------------------

HangupOnly ==
    /\ echo.ev \cap {"EPOLLERR", "EPOLLHUP"} # {}
    /\ "EPOLLIN" \notin echo.ev

PlainReadable == echo.ev = {"EPOLLIN"}

OnDataDone == echo.pc \in {"returned", "panicked"}

RECURSIVE Flatten(_)
\* The bytes of a sequence of chunks, in order.
Flatten(chunks) ==
    IF chunks = <<>> THEN <<>> ELSE Head(chunks) \o Flatten(Tail(chunks))

\* C22: when on_data gets an event that has ERR or HUP set and is not
\* readable, it reads nothing and writes nothing, and it calls delete on the
\* fd of the stream exactly once.
C22_HangupDeletesOnce ==
    HangupOnly =>
        /\ echo.reads = 0
        /\ echo.writes = 0
        /\ echo.out = <<>>
        /\ IF echo.pc = "start" THEN echo.deletes = 0
           ELSE /\ echo.deletes = 1
                /\ last.op = "delete"
                /\ last.fd = StreamFd

C22_Witness ==
    /\ HangupOnly
    /\ echo.pc = "returned"
    /\ echo.script # <<>>
    /\ echo.deletes = 1
    /\ last.ret = "Ok"
    /\ ~epoll[StreamFd].armed

\* C23: when on_data gets a readable event and a read returns 0 (end of
\* file) or an error other than WouldBlock, it calls delete exactly once and
\* does no further read or write.
C23_ClosedDeletesOnce ==
    ("EPOLLIN" \in echo.ev /\ echo.closed) =>
        /\ echo.deletes = 1
        /\ OnDataDone

\* C24 as stated: on a readable event without ERR or HUP, everything read has
\* been written back whenever on_data is between two reads, and on_data ends
\* by returning, without a delete, on the read that gives WouldBlock.
C24_EchoesAlways ==
    PlainReadable =>
        /\ echo.out = Flatten(echo.inp)
        /\ (OnDataDone /\ ~echo.closed) =>
               /\ echo.pc = "returned"
               /\ echo.deletes = 0

\* C24: on a readable event without ERR or HUP, as long as every write_all
\* succeeds, on_data has written back every chunk it has read, byte for byte
\* and in read order, and on the read that gives WouldBlock it returns
\* without a delete. When a write_all fails, on_data panics: the chunks read
\* before are written back whole, the last one in part.
C24_EchoesUntilWouldBlock ==
    (PlainReadable /\ ~echo.closed) =>
        /\ echo.deletes = 0
        /\ echo.writes = Len(echo.inp)
        /\ echo.pc # "panicked" => echo.out = Flatten(echo.inp)
        /\ echo.pc = "returned" => echo.reads = Len(echo.inp) + 1
        /\ echo.pc = "panicked" =>
               /\ echo.inp # <<>>
               /\ echo.reads = Len(echo.inp)
               /\ LET n == Len(echo.inp)
                      before == Flatten(SubSeq(echo.inp, 1, n - 1))
                  IN \E k \in 0..(Len(echo.inp[n]) - 1) :
                        echo.out = before \o SubSeq(echo.inp[n], 1, k)

C24_Witness ==
    /\ PlainReadable
    /\ echo.pc = "returned"
    /\ ~echo.closed
    /\ Len(echo.inp) = 2
    /\ echo.inp[1] # echo.inp[2]
    /\ Len(echo.inp[1]) = 2
    /\ echo.out = echo.inp[1] \o echo.inp[2]
    /\ echo.deletes = 0

\* ---- the Interest builder ----------------------------------------------------

\* The flags each flag-adding call stands for.
FlagsOfCall(m) ==
    CASE m = "read" -> {"EPOLLIN"}
      [] m = "write" -> {"EPOLLOUT"}
      [] m = "read_write" -> {"EPOLLIN", "EPOLLOUT"}
      [] m = "rdhup" -> {"EPOLLRDHUP"}
      [] m = "pri" -> {"EPOLLPRI"}
      [] m = "edge_triggered" -> {"EPOLLET"}
      [] m = "oneshot" -> {"EPOLLONESHOT"}
      [] m = "wakeup" -> {"EPOLLWAKEUP"}
      [] m = "exclusive" -> {"EPOLLEXCLUSIVE"}

\* The bit each remove_X call is about.
BitOfRemove(m) ==
    CASE m = "remove_read" -> "EPOLLIN"
      [] m = "remove_write" -> "EPOLLOUT"
      [] m = "remove_rdhup" -> "EPOLLRDHUP"
      [] m = "remove_pri" -> "EPOLLPRI"
      [] m = "remove_edge_triggered" -> "EPOLLET"
      [] m = "remove_oneshot" -> "EPOLLONESHOT"
      [] m = "remove_wakeup" -> "EPOLLWAKEUP"
      [] m = "remove_exclusive" -> "EPOLLEXCLUSIVE"

OnlyAdds == \A k \in 1..Len(built.calls) : built.calls[k] \in AddMethods

\* C25: after any chain of flag-adding calls from interest(), the mask is the
\* union of the flags of the calls made, whatever their order and however
\* often each was made; interest() itself is empty, and read_write() gives
\* what read().write() gives.
C25_AddsGiveUnion ==
    /\ built.calls = <<>> => built.mask = {}
    /\ OnlyAdds =>
          built.mask = UNION {FlagsOfCall(built.calls[k]) :
                                 k \in 1..Len(built.calls)}
    /\ read_write(built.mask) = write(read(built.mask))
    /\ read_write(built.mask) = built.mask \cup {"EPOLLIN", "EPOLLOUT"}

C25_Witness ==
    /\ built.calls = <<"write", "read_write", "write">>
    /\ built.mask = {"EPOLLIN", "EPOLLOUT"}

\* C26: a remove_X call clears the bit X and leaves every other bit of the
\* mask as it was; when X is not set the mask is unchanged.
C26_RemoveClearsOneBit ==
    [][\A m \in RemoveMethods :
          built'.calls = Append(built.calls, m) =>
              /\ built'.mask = built.mask \ {BitOfRemove(m)}
              /\ BitOfRemove(m) \notin built.mask => built'.mask = built.mask]_vars

C26_Witness ==
    /\ built.calls = <<"read_write", "edge_triggered", "remove_read">>
    /\ built.mask = {"EPOLLOUT", "EPOLLET"}

\* ---- the table and the kernel -----------------------------------------------

\* C27: whenever no batch is being dispatched, a file descriptor is a key of
\* the table exactly when it is armed in the kernel's interest list.
C27_TableMatchesKernel ==
    ~handling.some =>
        \A fd \in Fds : registered[fd] # 0 <=> epoll[fd].armed

\* C28: when add(s) returns Ok for a subscriber s of fd f, the table entry of
\* f is s, its raw_fd() is f, and the kernel entry of f carries the interest
\* of s and, as cookie, the address held in the handle of s.
C28_AddOkRegisters ==
    [][ (AddReturned /\ last'.ret = "Ok") =>
            LET s == last'.id
                f == last'.fd
            IN /\ registered'[f] = s
               /\ Live(subscribers', s)
               /\ subscribers'[s].fd = f
               /\ epoll'[f].armed
               /\ epoll'[f].events = subscribers'[s].interest
               /\ epoll'[f].data = subscribers'[s].ptr
      ]_vars

\* C28 witness: a handler's add has just returned Ok.
C28_Witness ==
    /\ pc = "handler"
    /\ last.op = "add" /\ last.ret = "Ok"
    /\ registered[last.fd] = last.id
    /\ Live(subscribers, last.id)
    /\ epoll[last.fd].data = subscribers[last.id].ptr

\* C29: every subscriber handed to add is destructed at most once at any
\* moment, and exactly once when the reactor is gone; every table entry holds
\* a subscriber that is not destructed, and no two entries hold the same one.
C29_DestructedOnce ==
    /\ \A i \in Ids : subscribers[i].drops <= 1
    /\ \A f \in Fds :
          registered[f] # 0 =>
              /\ Live(subscribers, registered[f])
              /\ \A g \in Fds \ {f} : registered[g] # registered[f]
    /\ pc = "gone" =>
          \A i \in Ids : subscribers[i].born => subscribers[i].drops = 1

\* The step is a return of run_once_with_timeout, called between batches,
\* with an error of epoll_wait.
WaitFailed ==
    /\ pc = "idle"
    /\ last' # last
    /\ last'.op = "run_once"
    /\ last'.ret # "Ok"

\* C30: `handling` is present only inside a run of run_once_with_timeout that
\* got a batch: it is absent before the first run, after every Ok return and
\* after a return with an error of epoll_wait, EINTR included. Such a return
\* invokes no handler and leaves the table and the kernel set as they were,
\* and no run_once_with_timeout called between batches panics on the guard
\* against nested runs.
C30_HandlingOnlyInDispatch ==
    /\ [](pc \in {"idle", "failed"} => ~handling.some)
    /\ [](handling.some =>
             pc \in {"loop", "handler", "panicked", "aborted"})
    /\ [][ WaitFailed =>
              /\ last'.ret \in {"EINTR", "EBADF"}
              /\ pc' \in {"idle", "failed"}
              /\ ~handling'.some
              /\ calls' = calls
              /\ UNCHANGED <<registered, subscribers, epoll, event_buf>>
      ]_vars
    /\ [][ pc = "idle" => pc' # "panicked" ]_vars

\* C30 witness: with one subscriber registered and another one destructed, a
\* run has just returned the Interrupted error of epoll_wait.
C30_Witness ==
    /\ pc = "idle"
    /\ last.op = "run_once" /\ last.ret = "EINTR"
    /\ ~handling.some
    /\ \E fd \in Fds : registered[fd] # 0 /\ epoll[fd].armed
    /\ \E i \in Ids : subscribers[i].drops = 1

\* ---- the interest cell --------------------------------------------------------

\* C31: for every table entry whose fd is armed in the kernel, the interest
\* cell of the subscriber equals the mask the kernel holds for the fd.
C31_CellMatchesKernel ==
    \A fd \in Fds :
        (registered[fd] # 0 /\ epoll[fd].armed) =>
            subscribers[registered[fd]].interest = epoll[fd].events

\* C31 witness: a handler's modify has returned Ok and the cell of its fd reads
\* the new mask, as the kernel does, next to an entry added with
\* EPOLLEXCLUSIVE.
C31_Witness ==
    /\ pc = "handler"
    /\ last.op = "modify" /\ last.ret = "Ok"
    /\ registered[last.fd] # 0
    /\ epoll[last.fd].armed
    /\ subscribers[registered[last.fd]].interest = epoll[last.fd].events
    /\ \E g \in Fds \ {last.fd} :
          /\ registered[g] # 0
          /\ "EPOLLEXCLUSIVE" \in epoll[g].events
          /\ subscribers[registered[g]].interest = epoll[g].events

\* C32: a modify that returns Ok never arms an interest with EPOLLEXCLUSIVE;
\* modify(fd, i) with EPOLLEXCLUSIVE in i fails and leaves every interest
\* cell and the kernel set as they were.
C32_NoExclusiveModify ==
    [][ \A fd \in Fds :
           /\ (ModifyReturned(fd) /\ last'.ret = "Ok") =>
                 "EPOLLEXCLUSIVE" \notin epoll'[fd].events
           /\ \A i \in Interests :
                 ("EPOLLEXCLUSIVE" \in i /\ ModifyCalled(fd, i)) =>
                     /\ last'.ret # "Ok"
                     /\ subscribers' = subscribers
                     /\ epoll' = epoll
      ]_vars

\* C32 witness: the kernel refused the modification of an entry that was
\* added without EPOLLEXCLUSIVE; the entry and the cell are as before.
C32_Witness ==
    /\ last.op = "modify"
    /\ last.ret = "EINVAL"
    /\ registered[last.fd] # 0
    /\ epoll[last.fd].armed
    /\ "EPOLLEXCLUSIVE" \notin epoll[last.fd].events
    /\ subscribers[registered[last.fd]].interest = epoll[last.fd].events

\* C33: while a batch is dispatched, a modify of an fd that a handler of the
\* batch has deleted does not succeed: it returns the error of EPOLL_CTL_MOD
\* and leaves the interest cells as they were.
C33_ModifyAfterDelete ==
    [][ \A fd \in Fds :
           (handling.some /\ InDeferred(handling, fd) /\ ModifyReturned(fd)) =>
               /\ last'.ctl
               /\ last'.ret \in {"ENOENT", "EINVAL"}
               /\ subscribers' = subscribers
      ]_vars

\* ---- the drop of the reactor -------------------------------------------------

\* C34: in a drop of the reactor the epoll descriptor is closed only after
\* the table has been dropped: at the step that closes it the table is
\* already empty and every subscriber it held has been destructed, and at
\* the step that drops the table the descriptor is still open.
C34_SubscribersBeforeEpoll ==
    [][ /\ (Len(dropped') > Len(dropped)
             /\ dropped'[Len(dropped')] = "epoll") =>
              /\ \E k \in 1..Len(dropped) : dropped[k] = "registered"
              /\ \A f \in Fds : registered[f] = 0
              /\ \A i \in Ids : subscribers[i].born => subscribers[i].drops >= 1
        /\ (Len(dropped') > Len(dropped)
             /\ dropped'[Len(dropped')] = "registered") =>
              /\ \A k \in 1..Len(dropped) : dropped[k] # "epoll"
              /\ epoll' = epoll
              /\ \A f \in Fds :
                    registered[f] # 0 => subscribers'[registered[f]].drops >= 1
      ]_vars

\* C34 witness: a reactor was dropped right after an add that returned Ok;
\* its descriptor is closed and the subscriber of the add is destructed.
C34_Witness ==
    /\ \E k \in 1..Len(dropped) : dropped[k] = "epoll"
    /\ last.op = "add" /\ last.ret = "Ok"
    /\ subscribers[last.id].drops = 1
    /\ \E i \in Ids \ {last.id} : subscribers[i].drops = 1

\* ---- Pinned -------------------------------------------------------------------

\* C35: an add (register), modify or delete made by a handler through its
\* Pinned handle is the step the same call on the reactor makes from the
\* same state: same result, same table, same kernel set, same `handling`.
C35_PinnedForwards ==
    [][ pc = "handler" =>
          /\ AddReturned =>
                /\ \E fd \in Fds, i \in Interests,
                      ptr \in Allocatable(subscribers), fault \in BOOLEAN :
                      add(NextId(subscribers), fd, i, ptr, fault)
                /\ handling' = handling
          /\ \A fd \in Fds :
                ModifyReturned(fd) =>
                    /\ \E i \in Interests : modify(fd, i)
                    /\ handling' = handling
                    /\ registered' = registered
          /\ \A fd \in Fds : DeleteReturned(fd) => delete(fd)
      ]_vars

\* C35 witness: in a batch in which an add through the handle had succeeded,
\* a delete through the handle has returned Ok and is deferred.
C35_Witness ==
    /\ pc = "handler"
    /\ batch_added # {}
    /\ last.op = "delete" /\ last.ret = "Ok"
    /\ InDeferred(handling, last.fd)

\* ---- the handler of the endpoint Subscriber ------------------------------------

\* The call k has been sent: its closure went into the queue.
Sent(k) == k[2] <= thread[k[1]].n

\* The step is the return of the handler of the Subscriber.
EpHandlerReturned == pc = "ep_drain" /\ pc' = "loop"

\* C36: an invocation of the handler first resets the eventfd and runs no
\* closure before; it then runs the closures one by one from the head of the
\* queue and returns only when it finds the queue empty, so that at its
\* return every closure sent so far (before the invocation or during it) has
\* been run.
C36_DrainsQueue ==
    [][ /\ (pc = "ep_read" /\ pc' # pc) =>
              /\ pc' = "ep_drain"
              /\ eventfd' = 0
              /\ ran' = ran
        /\ ran' # ran =>
              /\ pc = "ep_drain"
              /\ rx # <<>>
              /\ Len(ran'[Head(rx)]) = Len(ran[Head(rx)]) + 1
              /\ \A k \in Calls \ {Head(rx)} : ran'[k] = ran[k]
              /\ ~Queued(rx', Head(rx))
        /\ EpHandlerReturned =>
              /\ rx = <<>>
              /\ RxAlive(subscribers)
              /\ \A k \in Calls : Sent(k) => Len(ran[k]) = 1
      ]_vars

\* C36 witness: the handler has returned after it ran the closures of both
\* callers, one of which wrote the eventfd after the handler had reset it.
C36_Witness ==
    /\ pc = "loop"
    /\ idx = 2
    /\ eventfd = 1
    /\ rx = <<>>
    /\ \A c \in Callers : thread[c].n = 1 /\ Len(ran[<<c, 1>>]) = 1

\* ---- C37 --------------------------------------------------------------------

\* The producer of the queued closure k is past its write of the eventfd.
Written(k) ==
    Sent(k) /\ ~(thread[k[1]].n = k[2] /\ thread[k[1]].pc = "sent")

\* C37: no wakeup is lost. Whenever a closure is queued and its producer has
\* written the eventfd, either the eventfd is readable or the handler is in
\* its drain loop; and under SpecEndpoint (the reactor thread keeps running
\* batches, a producer that sent goes on to write) every queued closure is
\* eventually executed unless the Subscriber is unregistered meanwhile.
C37_NoLostWakeup ==
    /\ [](\A k \in Calls :
             (Queued(rx, k) /\ Written(k) /\ EpRegistered) =>
                 (eventfd > 0 \/ pc = "ep_drain"))
    /\ \A k \in Calls :
          Queued(rx, k) ~> (ran[k] # <<>> \/ ~EpRegistered)

\* C37 witness: the handler is in its drain loop and has run the closures of
\* both producers, one of which wrote the eventfd only after the handler had
\* reset it; the Subscriber is still registered.
C37_Witness ==
    /\ EpRegistered
    /\ pc = "ep_drain"
    /\ eventfd = 1
    /\ rx = <<>>
    /\ \A c \in Callers :
          /\ thread[c].n = 1
          /\ Written(<<c, 1>>)
          /\ Len(ran[<<c, 1>>]) = 1

\* ---- C38 --------------------------------------------------------------------

\* C38: a closure runs at most once and is in the queue at most once, never
\* after it ran; the closures of one producer are in the queue in the order
\* of their sends, and when one of them runs, every closure the producer sent
\* before it has run.
C38_OnceInOrder ==
    /\ [](\A k \in Calls :
             /\ Len(ran[k]) <= 1
             /\ ran[k] # <<>> => ~Queued(rx, k))
    /\ [](\A p, q \in 1..Len(rx) :
             (p < q /\ rx[p][1] = rx[q][1]) => rx[p][2] < rx[q][2])
    /\ [][\A k \in Calls :
             ran'[k] # ran[k] =>
                 \A j \in Calls :
                     (j[1] = k[1] /\ j[2] < k[2]) => Len(ran[j]) = 1]_vars

\* C38 witness: the first thread sent its second closure while the handler
\* was in the one batch its first write woke, before writing the eventfd
\* again; the handler has run both closures, and the other thread never
\* called.
C38_Witness ==
    /\ pc = "ep_drain"
    /\ rx = <<>>
    /\ eventfd = 0
    /\ thread[1].n = 2
    /\ thread[1].pc = "sent"
    /\ thread[2].n = 0
    /\ Len(ran[<<1, 1>>]) = 1
    /\ Len(ran[<<1, 2>>]) = 1

\* ---- C39 --------------------------------------------------------------------

\* The step is the return of call_blocking_with_timeout of thread c with the
\* timeout error.
TimedOut(c) ==
    /\ thread[c].pc = "waiting"
    /\ thread'[c].pc = "idle"
    /\ thread'[c].ret = "Timeout"

\* The caller of k gave up and the closure of k is still in the queue.
Abandoned(k) == reply[k] = "closed" /\ Queued(rx, k)

\* C39: a timeout of call_blocking_with_timeout returns an error to the
\* caller and leaves the closure, which has not run, in the queue; the
\* closure later runs as any other, once, and its result reaches nobody: the
\* reply channel stays closed and no thread is changed by the run. Under
\* SpecEndpoint the abandoned closure is eventually run unless the Subscriber
\* is unregistered meanwhile.
C39_TimeoutKeepsClosure ==
    /\ [][\A c \in Callers :
             TimedOut(c) =>
                 /\ thread[c].variant = "call_blocking_with_timeout"
                 /\ rx' = rx
                 /\ ran' = ran
                 /\ ran[CallOf(c)] = <<>>
                 /\ Abandoned(CallOf(c))']_vars
    /\ [][\A k \in Calls :
             (Abandoned(k) /\ ran'[k] # ran[k]) =>
                 /\ ran[k] = <<>>
                 /\ Len(ran'[k]) = 1
                 /\ reply'[k] = "closed"
                 /\ thread' = thread]_vars
    /\ [](\A k \in Calls : Len(ran[k]) <= 1 /\ (Abandoned(k) => ran[k] = <<>>))
    /\ \A k \in Calls :
          Abandoned(k) ~> (Len(ran[k]) = 1 \/ ~EpRegistered)

\* C39 witness: the second thread is back from call_blocking_with_timeout
\* with the timeout error, and its closure has run afterwards with a result
\* that went nowhere; the Subscriber is still registered.
C39_Witness ==
    /\ EpRegistered
    /\ thread[2].pc = "idle"
    /\ thread[2].variant = "call_blocking_with_timeout"
    /\ thread[2].ret = "Timeout"
    /\ ran[<<2, 1>>] = <<"NotFound">>
    /\ reply[<<2, 1>>] = "closed"

\* ---- C40 --------------------------------------------------------------------

\* C40: whatever the event flags and whatever the reads return, one
\* invocation of on_data calls delete on the fd of its stream at most once.
C40_DeleteAtMostOnce == echo.pc # "none" => echo.deletes <= 1

====
